---- MODULE Spec2Model ----
(***************************************************************************)
(* A model of data-viewer-audio (src/src/main.rs).                         *)
(*                                                                         *)
(*   Spec      the materialization cache: concurrent view_file requests    *)
(*             running extract_parquet_file on one dataset, at the grain   *)
(*             of its file-system calls.                                   *)
(*   SpecServe the same, next to a serve_audio request that streams a      *)
(*             cached file back.                                           *)
(*   SpecView  one view_file request handled alone, from the dataset to    *)
(*             the page slice and the two plots.                           *)
(*   SpecHist  Histogram::new and IntHistogram::new on arbitrary inputs.   *)
(*                                                                         *)
(* A panic is a terminal position (pc) or status named "panic_...".        *)
(*                                                                         *)
(* An f64 is modelled by a natural number or by NaN (infinities are left   *)
(* out).  On whole numbers every floor the code takes of an f64 quotient   *)
(* equals the floor of the exact quotient, so quotients are exact here.    *)
(* usize is UsizeBits wide.                                                *)
(***************************************************************************)
EXTENDS Integers, Sequences, FiniteSets, TLC

(* ------------------------------ bounds -------------------------------- *)

\* Concurrent view_file requests on the same dataset.
NumCallers == 2
\* Largest df.height() of the dataset.
MaxRows == 2
\* Length of every row's binary payload, in io::copy buffer loads.
PayloadLen == 2
\* Largest df.height() of the dataset a view_file request run alone sees.
MaxRecords == 3
\* Width of usize in bits (64 in the build, scaled down).
UsizeBits == 5
\* Largest finite value, greatest length and greatest num_bins of the
\* histogram inputs.
MaxValue == 5
MaxValues == 3
MaxBins == 4

(* --------------------------- cell values ------------------------------ *)

\* A duration cell holds a finite f64 (modelled by a natural number), the
\* f64 NaN, or AnyValue::Null.
NaN == -1
Null == -2

Callers == 1..NumCallers
RowIdx == 0..(MaxRows - 1)

\* The cells a dataset of the cache specification draws its durations from.
CacheDurCells == {Null, NaN, 1}
\* The cells a dataset of the view specification draws its durations from.
ViewDurCells == {Null, NaN, 1, 2}

\* binary_arr.get(i): the payload of row i, one number per buffer load; the
\* loads of different rows differ and none is 0 (0 marks a hole).
Payload(i) == [k \in 1..PayloadLen |-> i * PayloadLen + k]

VARIABLES
    dataset,    \* the normalized batch: a sequence of rows [dur, tlen]
    dir,        \* tmp_folder_subdir exists
    wavs,       \* the cache subdirectory: row index -> contents of <i>.wav
    writes,     \* row index -> number of File::create calls on <i>.wav
    pc,         \* caller -> its position in extract_parquet_file
    row,        \* caller -> the loop variable i
    pos,        \* caller -> the offset of its open File
    skipped,    \* caller -> path.exists() was true for row i
    created,    \* caller -> created_files
    rpc,        \* the serve_audio request's position
    ridx,       \* the index the serve_audio request asks for
    rbody,      \* the bytes the serve_audio response has streamed so far
    overflow_checks, \* the build panics on integer overflow (debug profile)
    req,        \* the last view_file request: its Pagination query
    resp,       \* what view_file made of it
    hin,        \* the last histogram built: its kind, values and num_bins
    hist        \* the histogram

vars == <<dataset, dir, wavs, writes, pc, row, pos, skipped, created,
          rpc, ridx, rbody, overflow_checks, req, resp, hin, hist>>

cacheVars == <<dataset, dir, wavs, writes, pc, row, pos, skipped, created>>
readerVars == <<rpc, ridx, rbody>>
viewVars == <<overflow_checks, req, resp>>
histVars == <<hin, hist>>

Height == Len(dataset)

Exists(i) == i \in DOMAIN wavs

(* ----------------------- extract_parquet_file ------------------------- *)

\* The loop header `for i in 0..df.height()`: where a caller goes with i.
LoopPc(i) == IF i < Height THEN "path_exists" ELSE "returned"

\* `if !tmp_folder_subdir.exists()`
DirCheck(p) ==
    /\ pc[p] = "dir_exists"
    /\ pc' = [pc EXCEPT ![p] = IF dir THEN LoopPc(0) ELSE "create_dir"]
    /\ UNCHANGED <<dataset, dir, wavs, writes, row, pos, skipped, created>>
    /\ UNCHANGED <<readerVars, viewVars, histVars>>

\* `fs::create_dir(&tmp_folder_subdir).unwrap()`: mkdir fails with
\* AlreadyExists on an existing directory and the unwrap panics.
CreateDir(p) ==
    /\ pc[p] = "create_dir"
    /\ IF dir
          THEN /\ pc' = [pc EXCEPT ![p] = "panic_create_dir"]
               /\ dir' = dir
          ELSE /\ pc' = [pc EXCEPT ![p] = LoopPc(0)]
               /\ dir' = TRUE
    /\ UNCHANGED <<dataset, wavs, writes, row, pos, skipped, created>>
    /\ UNCHANGED <<readerVars, viewVars, histVars>>

\* Whether the payload is written, given path.exists().
ShouldWrite(exists) == ~exists

\* `if !path.exists()`
PathExists(p) ==
    /\ pc[p] = "path_exists"
    /\ pc' = [pc EXCEPT ![p] =
                 IF ShouldWrite(Exists(row[p])) THEN "file_create" ELSE "metadata"]
    /\ skipped' = [skipped EXCEPT ![p] = ~ShouldWrite(Exists(row[p]))]
    /\ UNCHANGED <<dataset, dir, wavs, writes, row, pos, created>>
    /\ UNCHANGED <<readerVars, viewVars, histVars>>

\* File::create opens the path with create + truncate: an existing file is
\* cut to length 0.
Truncated(content) == <<>>

\* `File::create(path.clone()).unwrap()`
FileCreate(p) ==
    /\ pc[p] = "file_create"
    /\ wavs' = IF Exists(row[p])
                   THEN [wavs EXCEPT ![row[p]] = Truncated(@)]
                   ELSE wavs @@ (row[p] :> <<>>)
    /\ writes' = [writes EXCEPT ![row[p]] = @ + 1]
    /\ pos' = [pos EXCEPT ![p] = 0]
    /\ pc' = [pc EXCEPT ![p] = "copy"]
    /\ UNCHANGED <<dataset, dir, row, skipped, created>>
    /\ UNCHANGED <<readerVars, viewVars, histVars>>

\* The write of a File opened for appending instead: every load lands at
\* the end of the file.
WriteAppend(content, at, load) == Append(content, load)

\* write(2) of one buffer load at offset `at`: a file shorter than the
\* offset is extended with a hole of zeroes.
WriteAt(content, at, load) ==
    [k \in 1..(IF Len(content) > at + 1 THEN Len(content) ELSE at + 1) |->
        IF k = at + 1 THEN load
        ELSE IF k <= Len(content) THEN content[k]
        ELSE 0]

\* One round of `std::io::copy(&mut &audio_bytes[..], &mut file)`; after the
\* last load the File is dropped (its offset is forgotten).
Copy(p) ==
    /\ pc[p] = "copy"
    /\ wavs' = [wavs EXCEPT ![row[p]] =
                    WriteAt(@, pos[p], Payload(row[p])[pos[p] + 1])]
    /\ pos' = [pos EXCEPT ![p] = IF pos[p] + 1 = PayloadLen THEN 0 ELSE @ + 1]
    /\ pc' = [pc EXCEPT ![p] =
                 IF pos[p] + 1 = PayloadLen THEN "metadata" ELSE "copy"]
    /\ UNCHANGED <<dataset, dir, writes, row, skipped, created>>
    /\ UNCHANGED <<readerVars, viewVars, histVars>>

\* `col_d.get(i).unwrap().extract::<f64>()`: None for a Null cell, the f64
\* for any float, NaN included.
ExtractF64(cell) == IF cell = Null THEN <<>> ELSE <<cell>>

\* The Audio pushed for row i.
Audio(i, duration, tlen) == [idx |-> i, duration |-> duration, tlen |-> tlen]

\* Lines 287-300: the duration (whose unwrap panics on None), the
\* transcription, the push, and the loop header.
Metadata(p) ==
    /\ pc[p] = "metadata"
    /\ LET cell == dataset[row[p] + 1]
           d == ExtractF64(cell.dur)
       IN IF d = <<>>
             THEN /\ pc' = [pc EXCEPT ![p] = "panic_duration"]
                  /\ UNCHANGED <<row, created>>
             ELSE /\ created' = [created EXCEPT ![p] =
                                    Append(@, Audio(row[p], d[1], cell.tlen))]
                  /\ row' = [row EXCEPT ![p] = @ + 1]
                  /\ pc' = [pc EXCEPT ![p] = LoopPc(row[p] + 1)]
    /\ skipped' = [skipped EXCEPT ![p] = FALSE]
    /\ UNCHANGED <<dataset, dir, wavs, writes, pos>>
    /\ UNCHANGED <<readerVars, viewVars, histVars>>

(* ----------------------------- serve_audio ---------------------------- *)

\* `if !audio_path.exists() || !audio_path.is_file()` and File::open.
ServeOpen(i) ==
    /\ rpc = "idle"
    /\ ridx' = i
    /\ rbody' = <<>>
    /\ rpc' = IF Exists(i) THEN "streaming" ELSE "not_found"
    /\ UNCHANGED <<cacheVars, viewVars, histVars>>

\* ReaderStream: one read at the stream's offset; a read at or past the end
\* of the file ends the body.
ServeRead ==
    /\ rpc = "streaming"
    /\ IF Len(rbody) < Len(wavs[ridx])
          THEN /\ rbody' = Append(rbody, wavs[ridx][Len(rbody) + 1])
               /\ rpc' = rpc
          ELSE /\ rbody' = rbody
               /\ rpc' = "served"
    /\ UNCHANGED ridx
    /\ UNCHANGED <<cacheVars, viewVars, histVars>>

(* ------------------------- Histogram::new ----------------------------- *)

\* f64 arithmetic and comparisons with NaN: an operation on NaN is NaN and
\* a comparison with NaN is false.
IsNaN(x) == x = NaN
FSub(a, b) == IF IsNaN(a) \/ IsNaN(b) THEN NaN ELSE a - b
FAdd(a, b) == IF IsNaN(a) \/ IsNaN(b) THEN NaN ELSE a + b
FEq(a, b) == ~IsNaN(a) /\ ~IsNaN(b) /\ a = b
FLt(a, b) == ~IsNaN(a) /\ ~IsNaN(b) /\ a < b

\* The histogram a panic leaves: none.
Panicked(why) == [status |-> why, bins |-> <<>>, idx |-> <<>>, max_count |-> 0]

\* The least and the greatest of a non-empty sequence of numbers.
SeqMin(values) ==
    CHOOSE m \in {values[k] : k \in 1..Len(values)} :
        \A k \in 1..Len(values) : m <= values[k]
SeqMax(values) ==
    CHOOSE m \in {values[k] : k \in 1..Len(values)} :
        \A k \in 1..Len(values) : m >= values[k]

\* The bin index without its clamp.
NoClamp(q, num_bins) == q

\* `.min((num_bins - 1) as f64)` and `.min(num_bins - 1)`: the clamp of a
\* bin index to the last bin.
ClampIdx(q, num_bins) == IF q < num_bins - 1 THEN q ELSE num_bins - 1

\* bin_counts after the counting loop: bin i counts the values that were
\* not skipped and whose index is i.
BinCount(idx, counted, i) ==
    Cardinality({k \in 1..Len(idx) : counted[k] /\ idx[k] = i})

\* `*bin_counts.iter().max().unwrap_or(&0)`
MaxCount(bins) ==
    IF bins = <<>> THEN 0
    ELSE CHOOSE c \in {bins[k].count : k \in 1..Len(bins)} :
             \A k \in 1..Len(bins) : c >= bins[k].count

\* Histogram::new(values, num_bins, ..).  Bin edges are held as multiples
\* of 1/num_bins: an edge e stands for the f64 e / num_bins, and width for
\* bin_width * num_bins.
HistogramNew(values, num_bins) ==
    IF values = <<>> THEN Panicked("panic_empty")
    ELSE IF num_bins = 0 THEN Panicked("panic_num_bins")
    ELSE IF Len(values) >= 2 /\ \E k \in 1..Len(values) : IsNaN(values[k])
        \* min_by / max_by compare every value: partial_cmp(..).unwrap()
        THEN Panicked("panic_partial_cmp")
    ELSE
    LET n == Len(values)
        nan == IsNaN(values[1])
        min == IF nan THEN NaN ELSE SeqMin(values)
        max == IF nan THEN NaN ELSE SeqMax(values)
        width == IF FEq(max, min) THEN num_bins ELSE FSub(max, min)
        counted == [k \in 1..n |->
                       ~(FLt(values[k], min) \/ FLt(max, values[k]))]
        \* f64::min gives the other operand for NaN
        idx == [k \in 1..n |->
                   IF IsNaN(values[k]) \/ IsNaN(width)
                      THEN num_bins - 1
                      ELSE ClampIdx(((values[k] - min) * num_bins) \div width,
                                    num_bins)]
        start(i) == IF nan THEN NaN ELSE min * num_bins + i * width
        bins == [j \in 1..num_bins |->
                    [start |-> start(j - 1),
                     end |-> IF j = num_bins
                                THEN (IF nan THEN NaN ELSE max * num_bins)
                                ELSE FAdd(start(j - 1), width),
                     count |-> BinCount(idx, counted, j - 1)]]
    IN IF \E k \in 1..n : counted[k] /\ idx[k] \notin 0..(num_bins - 1)
          THEN Panicked("panic_index")
          ELSE [status |-> "ok", bins |-> bins, idx |-> idx,
                max_count |-> MaxCount(bins)]

(* ------------------------ IntHistogram::new --------------------------- *)

\* `(a as f64 / b as f64).ceil() as usize` for b > 0
CeilDiv(a, b) == (a + b - 1) \div b

\* IntHistogram::new(values, num_bins, ..); bin edges are the integers.
IntHistogramNew(values, num_bins) ==
    IF values = <<>> THEN Panicked("panic_empty")
    ELSE IF num_bins = 0 THEN Panicked("panic_num_bins")
    ELSE
    LET n == Len(values)
        min == SeqMin(values)
        max == SeqMax(values)
        bin_width == IF max = min THEN 1 ELSE CeilDiv(max - min, num_bins)
        counted == [k \in 1..n |-> ~(values[k] < min \/ values[k] > max)]
        idx == [k \in 1..n |->
                   IF bin_width > 0
                      THEN ClampIdx((values[k] - min) \div bin_width, num_bins)
                      ELSE 0]
        bins == [j \in 1..num_bins |->
                    [start |-> min + (j - 1) * bin_width,
                     end |-> min + (j - 1) * bin_width + bin_width,
                     count |-> BinCount(idx, counted, j - 1)]]
    IN IF \E k \in 1..n : counted[k] /\ idx[k] \notin 0..(num_bins - 1)
          THEN Panicked("panic_index")
          ELSE [status |-> "ok", bins |-> bins, idx |-> idx,
                max_count |-> MaxCount(bins)]

\* plot_durations and plot_transcription_lengths build with 4 bins.
PlotBins == 4

(* ----------------------------- view_file ------------------------------ *)

\* usize arithmetic: a result outside 0..UsizeMax overflows, which panics
\* in a build with overflow checks and wraps in a build without.
UsizeMax == 2 ^ UsizeBits - 1
Overflows(x) == x < 0 \/ x > UsizeMax
Wrap(x) == x % (UsizeMax + 1)

\* `pagination.page.unwrap_or(1)` and `pagination.page_size.unwrap_or(10)`;
\* an Option is the empty sequence or a sequence of one value.
DefaultPage == 1
DefaultPageSize == 10
UnwrapOr(opt, default) == IF opt = <<>> THEN default ELSE opt[1]

\* `(total_items as f64 / page_size as f64).ceil() as usize`: x / 0.0 is
\* infinite, which the cast saturates, and 0.0 / 0.0 is NaN, which it
\* turns into 0.
TotalPages(total_items, page_size) ==
    IF page_size = 0 THEN (IF total_items = 0 THEN 0 ELSE UsizeMax)
    ELSE CeilDiv(total_items, page_size)

\* The end of the slice without `.min(total_items)`.
SliceEndUnclamped(sum, total_items) == sum

\* `(start + page_size).min(total_items)`
SliceEnd(sum, total_items) == IF sum < total_items THEN sum ELSE total_items

\* Lines 410-422 on the records `files`: total_pages, start, end and the
\* slice `&files[start..end]`, whose indexing panics when start > end or
\* end > files.len().
Paginate(files, page, page_size, checks) ==
    LET total_items == Len(files)
        total_pages == TotalPages(total_items, page_size)
        less == page - 1
        product == Wrap(less) * page_size
        start == Wrap(product)
        sum == start + page_size
        end == SliceEnd(Wrap(sum), total_items)
        lost == [status |-> "panic_overflow", total_pages |-> total_pages,
                 start |-> 0, end |-> 0, slice |-> <<>>]
    IN IF checks /\ Overflows(less) THEN lost
       ELSE IF checks /\ Overflows(product) THEN lost
       ELSE IF checks /\ Overflows(sum) THEN lost
       ELSE IF start < total_items
               THEN IF start > end \/ end > total_items
                       THEN [status |-> "panic_slice", total_pages |-> total_pages,
                             start |-> start, end |-> end, slice |-> <<>>]
                       ELSE [status |-> "ok", total_pages |-> total_pages,
                             start |-> start, end |-> end,
                             slice |-> SubSeq(files, start + 1, end)]
               ELSE [status |-> "ok", total_pages |-> total_pages,
                     start |-> start, end |-> end, slice |-> <<>>]

\* extract_parquet_file run alone: whether a duration unwrap panics, and the
\* created_files it returns otherwise.
HasNull == \E k \in 1..Height : dataset[k].dur = Null
CreatedFiles == [k \in 1..Height |-> Audio(k - 1, dataset[k].dur, dataset[k].tlen)]

NoPlot == Panicked("not_reached")

\* view_file from line 408 on: the materialization, the page, the two
\* plots.  A panic ends the handler; the response keeps what was computed
\* before it.
ViewResponse(page, page_size, checks) ==
    IF HasNull
       THEN [status |-> "panic_duration", paged |-> "not_reached",
             total_pages |-> 0, slice |-> <<>>, durations_plot |-> NoPlot,
             transcriptions_plot |-> NoPlot]
    ELSE
    LET files == CreatedFiles
        pg == Paginate(files, page, page_size, checks)
        durations == [k \in 1..Len(files) |-> files[k].duration]
        transcriptions == [k \in 1..Len(files) |-> files[k].tlen]
        dplot == HistogramNew(durations, PlotBins)
        tplot == IntHistogramNew(transcriptions, PlotBins)
        upto == [status |-> pg.status, paged |-> pg.status,
                 total_pages |-> pg.total_pages, slice |-> pg.slice,
                 durations_plot |-> NoPlot, transcriptions_plot |-> NoPlot]
    IN IF pg.status # "ok" THEN upto
       ELSE IF dplot.status # "ok"
          THEN [upto EXCEPT !.status = dplot.status, !.durations_plot = dplot]
       ELSE IF tplot.status # "ok"
          THEN [upto EXCEPT !.status = tplot.status, !.durations_plot = dplot,
                            !.transcriptions_plot = tplot]
       ELSE [upto EXCEPT !.durations_plot = dplot, !.transcriptions_plot = tplot]

RECURSIVE SequentialPass(_, _)
\* One sequential pass of the loop of extract_parquet_file from row i on the
\* files fs: the write of each missing file, then the duration unwrap that
\* ends the pass on a Null cell.
SequentialPass(i, fs) ==
    IF i >= Height THEN fs
    ELSE LET written == IF i \in DOMAIN fs THEN fs ELSE fs @@ (i :> Payload(i))
         IN IF ExtractF64(dataset[i + 1].dur) = <<>>
               THEN written
               ELSE SequentialPass(i + 1, written)

\* One view_file request with the query ?page=..&page_size=.., run alone.
ViewFile(page_opt, size_opt) ==
    /\ req' = [page |-> page_opt, page_size |-> size_opt]
    /\ resp' = ViewResponse(UnwrapOr(page_opt, DefaultPage),
                            UnwrapOr(size_opt, DefaultPageSize), overflow_checks)
    /\ dir' = TRUE
    /\ wavs' = SequentialPass(0, wavs)
    /\ UNCHANGED <<dataset, writes, pc, row, pos, skipped, created>>
    /\ UNCHANGED <<readerVars, overflow_checks, histVars>>

(* ------------------------ histogram requests -------------------------- *)

NewHistogram(values, num_bins) ==
    /\ hin' = [kind |-> "f64", values |-> values, num_bins |-> num_bins]
    /\ hist' = HistogramNew(values, num_bins)
    /\ UNCHANGED <<cacheVars, readerVars, viewVars>>

NewIntHistogram(values, num_bins) ==
    /\ hin' = [kind |-> "usize", values |-> values, num_bins |-> num_bins]
    /\ hist' = IntHistogramNew(values, num_bins)
    /\ UNCHANGED <<cacheVars, readerVars, viewVars>>

(* --------------------------- specifications --------------------------- *)

Rows(n, cells) == [1..n -> [dur : cells, tlen : {0}]]

\* The state main leaves: an emptied tmp_folder, no request made.
InitCache ==
    /\ dir = FALSE
    /\ wavs = <<>>
    /\ writes = [i \in RowIdx |-> 0]
    /\ pc = [p \in Callers |-> "dir_exists"]
    /\ row = [p \in Callers |-> 0]
    /\ pos = [p \in Callers |-> 0]
    /\ skipped = [p \in Callers |-> FALSE]
    /\ created = [p \in Callers |-> <<>>]
    /\ rpc = "idle"
    /\ ridx = 0
    /\ rbody = <<>>

InitView ==
    /\ req = [page |-> <<>>, page_size |-> <<>>]
    /\ resp = [status |-> "none", paged |-> "not_reached", total_pages |-> 0,
               slice |-> <<>>, durations_plot |-> NoPlot,
               transcriptions_plot |-> NoPlot]

InitHist ==
    /\ hin = [kind |-> "none", values |-> <<>>, num_bins |-> 0]
    /\ hist = Panicked("none")

Init ==
    /\ dataset \in UNION {Rows(n, CacheDurCells) : n \in 0..MaxRows}
    /\ overflow_checks = FALSE
    /\ InitCache
    /\ InitView
    /\ InitHist

Next ==
    \/ \E p \in Callers : DirCheck(p)
    \/ \E p \in Callers : CreateDir(p)
    \/ \E p \in Callers : PathExists(p)
    \/ \E p \in Callers : FileCreate(p)
    \/ \E p \in Callers : Copy(p)
    \/ \E p \in Callers : Metadata(p)

Spec == Init /\ [][Next]_vars

\* The same requests next to one serve_audio request, which only reads the
\* cache.
NextServe ==
    \/ Next
    \/ \E i \in RowIdx : ServeOpen(i)
    \/ ServeRead

SpecServe == Init /\ [][NextServe]_vars

\* A query value: absent, or any usize.
QueryValues == {<<>>} \cup {<<v>> : v \in 0..UsizeMax}

InitViewFile ==
    /\ dataset \in UNION {Rows(n, ViewDurCells) : n \in 0..MaxRecords}
    /\ overflow_checks \in BOOLEAN
    /\ InitCache
    /\ InitView
    /\ InitHist

\* A response depends on no earlier request, so a behaviour makes one.
ViewRequest ==
    /\ resp.status = "none"
    /\ \E page_opt \in QueryValues, size_opt \in QueryValues :
          ViewFile(page_opt, size_opt)

NextView == ViewRequest

SpecView == InitViewFile /\ [][NextView]_vars

FloatValues == (0..MaxValue) \cup {NaN}
SeqsOver(S) == UNION {[1..n -> S] : n \in 0..MaxValues}

InitHistograms ==
    /\ dataset = <<>>
    /\ overflow_checks = FALSE
    /\ InitCache
    /\ InitView
    /\ InitHist

\* A histogram depends on no earlier one, so a behaviour builds one.
HistogramRequest ==
    /\ hist.status = "none"
    /\ \E values \in SeqsOver(FloatValues), num_bins \in 0..MaxBins :
          NewHistogram(values, num_bins)

IntHistogramRequest ==
    /\ hist.status = "none"
    /\ \E values \in SeqsOver(0..MaxValue), num_bins \in 0..MaxBins :
          NewIntHistogram(values, num_bins)

NextHist ==
    \/ HistogramRequest
    \/ IntHistogramRequest

SpecHist == InitHistograms /\ [][NextHist]_vars

(* ------------------- claims on the materialization cache -------------- *)

Finished(p) == pc[p] \in {"returned", "panic_create_dir", "panic_duration"}
AllFinished == \A p \in Callers : Finished(p)
Complete(i) == Exists(i) /\ wavs[i] = Payload(i)
Finite(cell) == cell \notin {NaN, Null}

\* The cache subdirectory one sequential call leaves from an empty cache.
SequentialFiles == SequentialPass(0, <<>>)

\* C1: under concurrent materialize calls on one dataset, each file i.wav is
\* written exactly once in total, and every caller that returns finds every
\* file of the dataset holding its row's complete payload.
C1_ExactlyOneWrite ==
    /\ \A i \in RowIdx : writes[i] <= 1
    /\ \A p \in Callers :
          pc[p] = "returned" => \A i \in 0..(Height - 1) : Complete(i)

\* C2: no caller observes a file that is empty or partly written: a caller
\* that took the skip-if-exists branch for row i has a complete i.wav, and a
\* served serve_audio body is the complete payload of the row asked for.
C2_NoPartialObservation ==
    /\ \A p \in Callers :
          (pc[p] = "metadata" /\ skipped[p]) => Complete(row[p])
    /\ rpc = "served" => rbody = Payload(ridx)

\* C3: creating the cache subdirectory never fails a materialize call
\* because the directory already exists.
C3_CreateDirIdempotent == \A p \in Callers : pc[p] # "panic_create_dir"

\* C4: a file of the cache is never rewritten: once i.wav holds its row's
\* payload, no step of any materialize call changes its contents.
C4_NeverRewritten ==
    [][\A i \in DOMAIN wavs :
          wavs[i] = Payload(i) => (i \in DOMAIN wavs' /\ wavs'[i] = wavs[i])]_vars

\* C5: when all the concurrent materialize calls on an empty cache have
\* finished, the cache subdirectory holds exactly the files one sequential
\* call produces, each with its row's complete payload.
C5_SameAsSequential == AllFinished => wavs = SequentialFiles

\* C5's case: all calls have finished after two of them raced on the same
\* file, both creating and writing it.
C5_Witness ==
    /\ AllFinished
    /\ \E i \in RowIdx : writes[i] >= 2
    /\ \A p \in Callers : pc[p] = "returned"

\* The records of the rows whose duration is a finite number.
RECURSIVE FiniteRecords(_)
FiniteRecords(i) ==
    IF i >= Height THEN <<>>
    ELSE (IF Finite(dataset[i + 1].dur)
             THEN <<Audio(i, dataset[i + 1].dur, dataset[i + 1].tlen)>>
             ELSE <<>>) \o FiniteRecords(i + 1)

\* C9: a row whose duration is Null or not finite never aborts the
\* materialize call, and a call that returns holds the records of exactly
\* the other rows.
C9_RowLevelError ==
    \A p \in Callers :
        /\ pc[p] # "panic_duration"
        /\ pc[p] = "returned" => created[p] = FiniteRecords(0)

(* ------------------------- claims on pagination ----------------------- *)

\* The request reached line 410 with its records.
Paged == resp.status # "none" /\ resp.paged # "not_reached"
ReqPage == UnwrapOr(req.page, DefaultPage)
ReqPageSize == UnwrapOr(req.page_size, DefaultPageSize)
Least(a, b) == IF a < b THEN a ELSE b

\* records[(page-1)*page_size : min(page*page_size, total_items)] in
\* unbounded integers, empty when the start is at or beyond total_items.
IdealSlice(records, page, page_size) ==
    SubSeq(records, (page - 1) * page_size + 1,
           Least(page * page_size, Len(records)))

\* ceil(total_items / page_size): the least n with n * page_size >= total_items.
IdealTotalPages(total_items, page_size) ==
    CHOOSE n \in 0..total_items :
        /\ n * page_size >= total_items
        /\ n = 0 \/ (n - 1) * page_size < total_items

\* C6: a request with page = 0 is answered as page = 1 is: the same slice,
\* the same total_pages, and no underflow of page - 1.
C6_PageZeroIsPageOne ==
    (Paged /\ req.page = <<0>> /\ ReqPageSize >= 1) =>
        /\ resp.paged = "ok"
        /\ resp.slice = IdealSlice(CreatedFiles, 1, ReqPageSize)
        /\ resp.total_pages = IdealTotalPages(Height, ReqPageSize)

\* C7: for page >= 1 and page_size >= 1, however large, the slice is
\* records[(page-1)*page_size : min(page*page_size, total_items)] and is
\* computed without an overflow failure or an out-of-range access.
C7_SliceForEveryPage ==
    (Paged /\ ReqPage >= 1 /\ ReqPageSize >= 1) =>
        /\ resp.paged = "ok"
        /\ resp.slice = IdealSlice(CreatedFiles, ReqPage, ReqPageSize)

\* The slices of pages first..last, one after the other.
RECURSIVE ConcatPages(_, _, _, _)
ConcatPages(first, last, page_size, checks) ==
    IF first > last THEN <<>>
    ELSE Paginate(CreatedFiles, first, page_size, checks).slice
            \o ConcatPages(first + 1, last, page_size, checks)

\* C8: for page_size >= 1, total_pages is ceil(total_items / page_size)
\* (0 for no records), every page 1..total_pages is computed without
\* failure, and their slices in order make up the record sequence.
C8_PagesReconstruct ==
    (Paged /\ ReqPageSize >= 1) =>
        /\ resp.total_pages = IdealTotalPages(Height, ReqPageSize)
        /\ \A p \in 1..resp.total_pages :
              Paginate(CreatedFiles, p, ReqPageSize, overflow_checks).status = "ok"
        /\ ConcatPages(1, resp.total_pages, ReqPageSize, overflow_checks)
              = CreatedFiles
        /\ ReqPage \in 1..resp.total_pages =>
              /\ resp.paged = "ok"
              /\ resp.slice = IdealSlice(CreatedFiles, ReqPage, ReqPageSize)

\* C8's case: the request is for the last of several pages, which is not
\* full.
C8_Witness ==
    /\ Paged
    /\ ReqPageSize >= 2
    /\ resp.total_pages >= 2
    /\ ReqPage = resp.total_pages
    /\ resp.paged = "ok"
    /\ Len(resp.slice) \in 1..(ReqPageSize - 1)

(* ------------------------- claims on histograms ----------------------- *)

RECURSIVE SumCounts(_)
SumCounts(bins) ==
    IF bins = <<>> THEN 0 ELSE bins[1].count + SumCounts(Tail(bins))

\* C10: a histogram built from a non-empty input with num_bins >= 1 (both
\* Histogram::new and IntHistogram::new) has num_bins bins, every bin index
\* computed lies in 0..num_bins-1, and the bin counts add up to the number
\* of input values.
C10_CountConservation ==
    /\ hist.status # "panic_index"
    /\ (hin.kind # "none" /\ hin.values # <<>> /\ hin.num_bins >= 1
          /\ \A k \in 1..Len(hin.values) : ~IsNaN(hin.values[k]))
        => hist.status = "ok"
    /\ hist.status = "ok" =>
          /\ Len(hist.bins) = hin.num_bins
          /\ Len(hist.idx) = Len(hin.values)
          /\ \A k \in 1..Len(hist.idx) : hist.idx[k] \in 0..(hin.num_bins - 1)
          /\ SumCounts(hist.bins) = Len(hin.values)

\* C10's case: several bins, and the greatest value is counted in the last
\* one, where only the clamp puts it.
C10_Witness ==
    /\ hist.status = "ok"
    /\ hin.num_bins >= 2
    /\ Len(hin.values) >= 2
    /\ hist.bins[hin.num_bins].count >= 1
    /\ hist.bins[1].count >= 1

\* C11: in a histogram IntHistogram::new returns, every input value lies in
\* the half-open range [start, end) of the bin it was counted in.
C11_IntBinContainsValue ==
    (hin.kind = "usize" /\ hist.status = "ok") =>
        \A k \in 1..Len(hin.values) :
            LET bin == hist.bins[hist.idx[k] + 1]
            IN bin.start <= hin.values[k] /\ hin.values[k] < bin.end

\* C12: in a histogram Histogram::new returns for finite values, every bin
\* has start <= end and every bin ends where the next one starts, the case
\* of all values equal included.
C12_ContiguousBins ==
    (hin.kind = "f64" /\ hist.status = "ok"
        /\ \A k \in 1..Len(hin.values) : ~IsNaN(hin.values[k])) =>
        /\ \A j \in 1..Len(hist.bins) : hist.bins[j].start <= hist.bins[j].end
        /\ \A j \in 1..(Len(hist.bins) - 1) :
              hist.bins[j].end = hist.bins[j + 1].start

(* --------------------- claims on the whole handler -------------------- *)

\* C13: a view_file request on a dataset of zero records, once its page is
\* computed, has an empty slice and total_pages = 0 and reaches the end of
\* the handler: no histogram is built from the empty sequence.
C13_ZeroRecordsView ==
    (resp.status # "none" /\ Height = 0 /\ resp.paged = "ok") =>
        /\ resp.slice = <<>>
        /\ resp.total_pages = 0
        /\ resp.status = "ok"
        /\ resp.durations_plot.status # "panic_empty"
        /\ resp.transcriptions_plot.status # "panic_empty"

====
